---- MODULE Spec2Model ----
(***************************************************************************)
(* Model of lleaves.Model (src/lleaves/lleaves.py): the lazily filled      *)
(* compile cache (frontend IR, optimized module, execution engine, entry   *)
(* function), persistence of the optimized IR, and predict.                *)
(*                                                                         *)
(* Python values are modelled as records.  None is the record None.  A     *)
(* handler is a pure operator from a "self" record to a result record      *)
(* [self, ret, exc]; an action applies the whole handler to one Model      *)
(* instance and stores the fields back.                                    *)
(***************************************************************************)
EXTENDS Integers, Sequences, FiniteSets, TLC

VARIABLES
    model_file,          \* [Models -> ModelFiles]      self.model_file
    general_info,        \* [Models -> record]          self._general_info
    IR_module_frontend,  \* [Models -> None | ir.Module]  self._IR_module_frontend
    IR_module,           \* [Models -> None | ModuleRef]  self._IR_module
    execution_engine,    \* [Models -> None | engine reference]  self._execution_engine
    c_entry_func,        \* [Models -> None | function pointer]  self._c_entry_func
    engines,             \* [Models -> Seq(set of ModuleRef)]: the engines built, by reference
    nmod,                \* [Models -> Nat]: ModuleRef objects created so far
    files,               \* [Paths -> file]: the file system
    invoked,             \* [Models -> record of saturating call counters]
    predicted,           \* [Models -> BOOLEAN]: some predict has returned normally
    last,                \* the most recent call: op, instance, argument, outcome, result, trace
    pc,                  \* [Threads -> label]: position of a thread inside compile()
    loc                  \* [Threads -> record]: a thread's local variables in compile()

vars == << model_file, general_info, IR_module_frontend, IR_module,
           execution_engine, c_entry_func, engines, nmod, files, invoked,
           predicted, last, pc, loc >>

cache == << IR_module_frontend, IR_module, execution_engine, c_entry_func >>

----------------------------------------------------------------------------
(* Bounds *)

MaxModules == 3      \* ModuleRef objects one instance may create through load_model_ir
MaxRows == 2         \* rows of a prediction batch
MaxCount == 2        \* the call counters saturate here
MaxPairLoads == 1    \* load_model_ir calls of one instance when two instances run

----------------------------------------------------------------------------
(* Values *)

None == [none |-> "None"]
\* A file is [exists, text]; a text is a sequence of lines
NoFile == [exists |-> FALSE, text |-> << >>]
File(text) == [exists |-> TRUE, text |-> text]

Models == {"m1", "m2"}
Threads == {"t1", "t2"}
Paths == {"model.ll", "other.ll"}
Val == 0 .. 1

\* bool(x) as Python evaluates it on the cached fields: None is false, a
\* ctypes function pointer is false when its address is NULL, every other
\* object here (ir.Module, ModuleRef, ExecutionEngine) is true.
Truthy(x) == /\ x # None
             /\ IF "addr" \in DOMAIN x THEN x.addr # 0 ELSE TRUE

Sat(n) == IF n < MaxCount THEN n + 1 ELSE MaxCount

----------------------------------------------------------------------------
(* External collaborators that are not in src/lleaves/lleaves.py *)

ModelFiles == {"fA", "fBad"}

\* parser.parse_model_file(model_file)["general_info"]
parse_model_file(f) ==
    IF f = "fA" THEN [max_feature_idx |-> 1, objective |-> "binary"]
    ELSE [max_feature_idx |-> 1, objective |-> "regression"]

\* ir_from_model_file(model_file): the unoptimized llvmlite.ir.Module.  A
\* function is [name, sem, opt, valid]; "fBad" translates to a program that
\* fails verification.
ir_from_model_file(f) ==
    [funcs |-> << [name |-> "tree_0", sem |-> f, opt |-> "O0", valid |-> "ok"],
                  [name |-> "forest_root", sem |-> f, opt |-> "O0",
                   valid |-> IF f = "fBad" THEN "illformed" ELSE "ok"] >>]

\* get_objective_func(objective): an elementwise function of the raw output
objective_transf(objective, preds) ==
    [i \in DOMAIN preds |-> IF objective = "binary" THEN preds[i] + 10 ELSE preds[i]]

\* What the decision function named sem computes: it reads nfeat values per row.
SemOf(sem) ==
    IF sem = "B" THEN [nfeat |-> 2, bias |-> 5] ELSE [nfeat |-> 2, bias |-> 0]

----------------------------------------------------------------------------
(* LLVM IR text, llvm.parse_assembly, str(module), verify, the pass manager *)

\* a line that prints every function as unoptimized
LineOf_unoptimized(fn) == << "define", fn.name, fn.sem, "O0", fn.valid >>

\* str(module): one line of text per function
LineOf(fn) == << "define", fn.name, fn.sem, fn.opt, fn.valid >>
ir_str(module) == [i \in DOMAIN module.funcs |-> LineOf(module.funcs[i])]

IsLine(l) == Len(l) = 5 /\ l[1] = "define"
ParseFail == [parse_error |-> "LLVM IR parsing error"]

\* llvm.parse_assembly(text): a new ModuleRef with identity id, or a parse error
parse_assembly(text, id) ==
    IF \A i \in DOMAIN text : IsLine(text[i])
    THEN [id |-> id,
          funcs |-> [i \in DOMAIN text |->
                       [name |-> text[i][2], sem |-> text[i][3],
                        opt |-> text[i][4], valid |-> text[i][5]]]]
    ELSE ParseFail

\* module.verify() passes
verify_ok(module) == \A i \in DOMAIN module.funcs : module.funcs[i].valid = "ok"

\* pm_module.run(module) with opt_level 3: rewrites every function, same semantics
pm_run(module) ==
    [module EXCEPT !.funcs = [i \in DOMAIN module.funcs |->
                                [module.funcs[i] EXCEPT !.opt = "O3"]]]

HasFunc(module, name) == \E i \in DOMAIN module.funcs : module.funcs[i].name = name

\* the addresses exec_engine.get_function_address(name) can resolve to: the
\* address of a function of a module is the module's identity; 0 when absent
FunctionAddresses(mods, name) == { mo.id : mo \in { x \in mods : HasFunc(x, name) } }
get_function_address(mods, name) ==
    IF FunctionAddresses(mods, name) = {} THEN 0
    ELSE CHOOSE a \in FunctionAddresses(mods, name) :
           \A b \in FunctionAddresses(mods, name) : a <= b

\* CFUNCTYPE(None, POINTER(c_double), c_int, POINTER(c_double))(addr)
CFUNCTYPE(addr) == [addr |-> addr]

\* Texts a file may hold before the program runs
GarbageText == << <<"garbage">> >>
RootlessText == << <<"define", "tree_0", "B", "O3", "ok">> >>
ForeignText == << <<"define", "forest_root", "B", "O3", "ok">> >>
InitialFiles(p) == IF p = "model.ll" THEN {NoFile, File(GarbageText)}
                   ELSE {File(RootlessText), File(ForeignText)}

----------------------------------------------------------------------------
(* The handlers of class Model, as operators on a self record *)

\* The fields of instance m, with the trace of the stages the running call has entered
Self(m) ==
    [model_file |-> model_file[m],
     IR_module_frontend |-> IR_module_frontend[m],
     IR_module |-> IR_module[m],
     execution_engine |-> execution_engine[m],
     c_entry_func |-> c_entry_func[m],
     engines |-> engines[m],
     nmod |-> nmod[m],
     trace |-> << >>]

Return(s, v) == [self |-> s, ret |-> v, exc |-> "ok"]
Raise(s, e) == [self |-> s, ret |-> None, exc |-> e]
Enter(s, stage) == [s EXCEPT !.trace = Append(@, stage)]

\* Model.num_feature
num_feature(info) == info.max_feature_idx + 1

\* _get_ir_from_frontend that never reuses the cached module
get_ir_from_frontend_uncached(s) ==
    LET s1 == [Enter(s, "frontend") EXCEPT
                 !.IR_module_frontend = ir_from_model_file(s.model_file)]
    IN  Return(s1, s1.IR_module_frontend)

\* Model._get_ir_from_frontend
get_ir_from_frontend(s) ==
    IF ~Truthy(s.IR_module_frontend)
    THEN LET s1 == [Enter(s, "frontend") EXCEPT
                      !.IR_module_frontend = ir_from_model_file(s.model_file)]
         IN  Return(s1, s1.IR_module_frontend)
    ELSE Return(s, s.IR_module_frontend)

\* _get_execution_engine without the cache test of lines 46-47
get_execution_engine_uncached(s) ==
    LET s1 == [Enter(s, "engine") EXCEPT
                 !.engines = Append(@, {}),
                 !.execution_engine = [eid |-> Len(s.engines) + 1]]
    IN  Return(s1, s1.execution_engine)

\* Model._get_execution_engine
get_execution_engine(s) ==
    IF Truthy(s.execution_engine)
    THEN Return(s, s.execution_engine)
    ELSE LET s1 == [Enter(s, "engine") EXCEPT
                      !.engines = Append(@, {}),
                      !.execution_engine = [eid |-> Len(s.engines) + 1]]
         IN  Return(s1, s1.execution_engine)

\* _get_optimized_module without the cache test of lines 62-63
get_optimized_module_uncached(s) ==
    LET r1 == get_ir_from_frontend(s)
        module == parse_assembly(ir_str(r1.ret), r1.self.nmod + 1)
    IN  IF module = ParseFail THEN Raise(r1.self, "ParseError")
        ELSE IF ~verify_ok(module) THEN Raise(Enter(r1.self, "verify"), "VerifyError")
        ELSE LET s2 == [Enter(Enter(r1.self, "verify"), "optimizer") EXCEPT
                          !.IR_module = pm_run(module),
                          !.nmod = @ + 1]
             IN  Return(s2, s2.IR_module)

\* Model._get_optimized_module
get_optimized_module(s) ==
    IF Truthy(s.IR_module)
    THEN Return(s, s.IR_module)
    ELSE LET r1 == get_ir_from_frontend(s)
             module == parse_assembly(ir_str(r1.ret), r1.self.nmod + 1)
         IN  IF module = ParseFail THEN Raise(r1.self, "ParseError")
             ELSE IF ~verify_ok(module) THEN Raise(Enter(r1.self, "verify"), "VerifyError")
             ELSE LET s2 == [Enter(Enter(r1.self, "verify"), "optimizer") EXCEPT
                               !.IR_module = pm_run(module),
                               !.nmod = @ + 1]
                  IN  Return(s2, s2.IR_module)

\* linking into an engine that accepts a module it already holds
link_and_bind_unguarded(s, exec_engine, module) ==
    LET s1 == [Enter(Enter(s, "add_module"), "finalize") EXCEPT
                 !.engines[exec_engine.eid] = @ \cup {module}]
        addr == get_function_address(s1.engines[exec_engine.eid], "forest_root")
        s2 == [Enter(Enter(s1, "resolve"), "bind") EXCEPT
                 !.c_entry_func = CFUNCTYPE(addr)]
    IN  Return(s2, None)

\* linking that binds the address of the module just added, without resolving the symbol
link_and_bind_unresolved(s, exec_engine, module) ==
    IF module \in s.engines[exec_engine.eid]
    THEN Raise(s, "KeyError")
    ELSE LET s1 == [Enter(Enter(s, "add_module"), "finalize") EXCEPT
                      !.engines[exec_engine.eid] = @ \cup {module}]
             s2 == [Enter(Enter(s1, "resolve"), "bind") EXCEPT
                      !.c_entry_func = CFUNCTYPE(module.id)]
         IN  Return(s2, None)

\* ExecutionEngine.add_module .. get_function_address, CFUNCTYPE: lines 115-125
link_and_bind(s, exec_engine, module) ==
    IF module \in s.engines[exec_engine.eid]
    THEN Raise(s, "KeyError")
    ELSE LET s1 == [Enter(Enter(s, "add_module"), "finalize") EXCEPT
                      !.engines[exec_engine.eid] = @ \cup {module}]
             addr == get_function_address(s1.engines[exec_engine.eid], "forest_root")
             s2 == [Enter(Enter(s1, "resolve"), "bind") EXCEPT
                      !.c_entry_func = CFUNCTYPE(addr)]
         IN  Return(s2, None)

\* compile without the early return of lines 110-111
compile_always(s) ==
    LET r1 == get_execution_engine(s)
        r2 == get_optimized_module(r1.self)
    IN  IF r2.exc # "ok" THEN Raise(r2.self, r2.exc)
        ELSE link_and_bind(r2.self, r1.ret, r2.ret)

\* Model.compile
compile(s) ==
    IF Truthy(s.c_entry_func)
    THEN Return(s, None)
    ELSE LET r1 == get_execution_engine(s)
             r2 == get_optimized_module(r1.self)
         IN  IF r2.exc # "ok" THEN Raise(r2.self, r2.exc)
             ELSE link_and_bind(r2.self, r1.ret, r2.ret)

\* save_model_ir that compiles before it writes
save_model_ir_compiling(s) ==
    LET r0 == compile(s)
        r1 == get_optimized_module(r0.self)
    IN  IF r1.exc # "ok" THEN Raise(r1.self, r1.exc)
        ELSE Return(r1.self, ir_str(r1.ret))

\* Model.save_model_ir: the text written, when the optimized module is obtained
save_model_ir(s) ==
    LET r1 == get_optimized_module(s)
    IN  IF r1.exc # "ok" THEN Raise(r1.self, r1.exc)
        ELSE Return(r1.self, ir_str(r1.ret))

\* load_model_ir that drops the cached module before it parses
load_model_ir_clearing(s, content) ==
    IF ~content.exists THEN Raise(s, "FileNotFoundError")
    ELSE LET module == parse_assembly(content.text, s.nmod + 1)
         IN  IF module = ParseFail THEN Raise([s EXCEPT !.IR_module = None], "ParseError")
             ELSE Return([s EXCEPT !.IR_module = module, !.nmod = @ + 1], None)

\* load_model_ir that invalidates the compiled entry function
load_model_ir_invalidating(s, content) ==
    IF ~content.exists THEN Raise(s, "FileNotFoundError")
    ELSE LET module == parse_assembly(content.text, s.nmod + 1)
         IN  IF module = ParseFail THEN Raise(s, "ParseError")
             ELSE Return([s EXCEPT !.IR_module = module, !.nmod = @ + 1,
                                   !.c_entry_func = None], None)

\* load_model_ir that links the module it read into an existing engine and rebinds
load_model_ir_rebinding(s, content) ==
    IF ~content.exists THEN Raise(s, "FileNotFoundError")
    ELSE LET module == parse_assembly(content.text, s.nmod + 1)
             s1 == [s EXCEPT !.IR_module = module, !.nmod = @ + 1]
         IN  IF module = ParseFail THEN Raise(s, "ParseError")
             ELSE IF Truthy(s.c_entry_func)
                  THEN Return(link_and_bind(s1, s.execution_engine, module).self, None)
                  ELSE Return(s1, None)

\* Model.load_model_ir, given the content of the file
load_model_ir(s, content) ==
    IF ~content.exists THEN Raise(s, "FileNotFoundError")
    ELSE LET module == parse_assembly(content.text, s.nmod + 1)
         IN  IF module = ParseFail THEN Raise(s, "ParseError")
             ELSE Return([s EXCEPT !.IR_module = module, !.nmod = @ + 1], None)

----------------------------------------------------------------------------
(* Prediction input, numpy conversion and the native call *)

\* np.array(list): a flat list gives a 1-dimensional array, a list of rows of
\* one length a 2-dimensional array; a ragged list cannot be converted
RECURSIVE Flatten(_)
Flatten(rows) == IF rows = << >> THEN << >> ELSE Head(rows) \o Flatten(Tail(rows))

ConvertFail == [convert_error |-> "ValueError"]

np_array(data) ==
    IF data.depth = 1
    THEN [type |-> "ndarray", shape |-> << Len(data.items) >>, flat |-> data.items,
          dtype |-> data.dtype]
    ELSE IF \A i \in DOMAIN data.items : Len(data.items[i]) = Len(data.items[1])
         THEN [type |-> "ndarray",
               shape |-> << Len(data.items), Len(data.items[1]) >>,
               flat |-> Flatten(data.items), dtype |-> data.dtype]
         ELSE ConvertFail

\* The elements of an array in row-major order.  An array of strings holds
\* them in the field chars; True and False of a bool array are held as 1 and 0.
Elements(arr) == IF arr.dtype = "str" THEN arr.chars ELSE arr.flat

\* float(x) for an element x of an array of the given dtype: a number keeps
\* its value, the strings "0" and "1" parse, any other string does not
CanCast(x, dtype) == dtype # "str" \/ x \in {"0", "1"}
float64_of(x, dtype) ==
    IF dtype = "str" THEN (IF x = "1" THEN 1 ELSE 0) ELSE x

\* np.array(arr.reshape(arr.size), dtype=np.float64): every dtype is cast; the
\* cast raises ValueError on a string that is not a number
astype_float64(arr) ==
    IF \A i \in DOMAIN Elements(arr) : CanCast(Elements(arr)[i], arr.dtype)
    THEN [ok |-> TRUE,
          flat |-> [i \in DOMAIN Elements(arr) |-> float64_of(Elements(arr)[i], arr.dtype)]]
    ELSE [ok |-> FALSE, flat |-> << >>]

\* _to_1d_ndarray that flattens column by column
to_1d_ndarray_colmajor(data) ==
    LET arr == IF data.type = "list" THEN np_array(data) ELSE data
        bad == [exc |-> "ValueError", data |-> << >>, n_preds |-> 0]
    IN  IF arr = ConvertFail THEN bad
        ELSE IF arr.type # "ndarray" THEN bad
        ELSE IF Len(arr.shape) # 2 THEN bad
        ELSE IF astype_float64(arr).ok
             THEN [exc |-> "ok",
                   data |-> [k \in DOMAIN astype_float64(arr).flat |->
                               astype_float64(arr).flat[((k - 1) % arr.shape[1]) * arr.shape[2]
                                                        + ((k - 1) \div arr.shape[1]) + 1]],
                   n_preds |-> arr.shape[1]]
        ELSE bad

\* _to_1d_ndarray that takes n_preds from data.size
to_1d_ndarray_size(data) ==
    LET arr == IF data.type = "list" THEN np_array(data) ELSE data
        bad == [exc |-> "ValueError", data |-> << >>, n_preds |-> 0]
    IN  IF arr = ConvertFail THEN bad
        ELSE IF arr.type # "ndarray" THEN bad
        ELSE IF Len(arr.shape) # 2 THEN bad
        ELSE IF arr.dtype = "float64"
             THEN [exc |-> "ok", data |-> arr.flat, n_preds |-> Len(arr.flat)]
        ELSE IF astype_float64(arr).ok
             THEN [exc |-> "ok", data |-> astype_float64(arr).flat,
                   n_preds |-> Len(astype_float64(arr).flat)]
        ELSE bad

\* Model._to_1d_ndarray: [exc, data, n_preds]
to_1d_ndarray(data) ==
    LET arr == IF data.type = "list" THEN np_array(data) ELSE data
        bad == [exc |-> "ValueError", data |-> << >>, n_preds |-> 0]
    IN  IF arr = ConvertFail THEN bad
        ELSE IF arr.type # "ndarray" THEN bad
        ELSE IF Len(arr.shape) # 2 THEN bad
        ELSE IF arr.dtype = "float64"
             THEN [exc |-> "ok", data |-> arr.flat, n_preds |-> arr.shape[1]]
        ELSE IF astype_float64(arr).ok
             THEN [exc |-> "ok", data |-> astype_float64(arr).flat, n_preds |-> arr.shape[1]]
        ELSE bad

\* The function at a resolved address: forest_root of the module with that identity
FuncAt(s, addr) ==
    LET mo == CHOOSE x \in UNION { s.engines[e] : e \in DOMAIN s.engines } : x.id = addr
        i == CHOOSE j \in DOMAIN mo.funcs : mo.funcs[j].name = "forest_root"
    IN  mo.funcs[i]

RECURSIVE RowSum(_, _, _)
RowSum(buf, base, k) ==
    IF k = 0 THEN 0 ELSE k * buf[base + k] + RowSum(buf, base, k - 1)

\* forest_root(input, count, output): row i is computed from
\* input[i*nfeat .. i*nfeat + nfeat - 1] only
forest_root(sem, buf, count) ==
    [i \in 1 .. count |-> SemOf(sem).bias + RowSum(buf, (i - 1) * SemOf(sem).nfeat, SemOf(sem).nfeat)]

\* self._c_entry_func(ptr_data, n_preds, ptr_preds): the outcomes the call can
\* have.  A NULL pointer faults.  A buffer shorter than count * nfeat is read
\* past its end: the call faults or reads arbitrary values.
native_call(s, buf, count) ==
    IF s.c_entry_func.addr = 0 THEN {[exc |-> "Segfault", preds |-> << >>]}
    ELSE LET sem == FuncAt(s, s.c_entry_func.addr).sem
             need == count * SemOf(sem).nfeat
         IN  IF Len(buf) >= need
             THEN {[exc |-> "ok", preds |-> forest_root(sem, buf, count)]}
             ELSE {[exc |-> "Segfault", preds |-> << >>]} \cup
                  {[exc |-> "ok", preds |-> forest_root(sem, buf \o over, count)] :
                     over \in [1 .. need - Len(buf) -> Val]}

\* predict that converts and checks the input before it compiles
predict_validate_first(s, info, data) ==
    LET r2 == to_1d_ndarray(data)
        r1 == compile(s)
        s3 == Enter(r1.self, "native")
    IN  IF r2.exc # "ok" THEN {[self |-> s, ret |-> None, exc |-> r2.exc, native |-> << >>]}
        ELSE IF r1.exc # "ok"
             THEN {[self |-> r1.self, ret |-> None, exc |-> r1.exc, native |-> << >>]}
        ELSE {[self |-> s3,
               ret |-> IF c.exc = "ok" THEN [array |-> objective_transf(info.objective, c.preds)]
                       ELSE None,
               exc |-> c.exc,
               native |-> << r2.n_preds >>] : c \in native_call(r1.self, r2.data, r2.n_preds)}

\* Model.predict: the set of outcomes [self, ret, exc, native], native the
\* count arguments the entry function was called with
predict(s, info, data) ==
    LET r1 == compile(s)
        r2 == to_1d_ndarray(data)
        s3 == Enter(r1.self, "native")
    IN  IF r1.exc # "ok" THEN {[self |-> r1.self, ret |-> None, exc |-> r1.exc, native |-> << >>]}
        ELSE IF r2.exc # "ok"
             THEN {[self |-> r1.self, ret |-> None, exc |-> r2.exc, native |-> << >>]}
        ELSE {[self |-> s3,
               ret |-> IF c.exc = "ok" THEN [array |-> objective_transf(info.objective, c.preds)]
                      ELSE None,
               exc |-> c.exc,
               native |-> << r2.n_preds >>] : c \in native_call(r1.self, r2.data, r2.n_preds)}

\* The batches predict is called with
Rows == { r \in [1 .. 2 -> Val] : r[2] = 1 }
Batches == UNION { [1 .. r -> Rows] : r \in 1 .. MaxRows }
ZeroFlat(n) == [i \in 1 .. n |-> 0]
DataInputs ==
    {[type |-> "other"]}
    \cup {[type |-> "list", depth |-> 1, items |-> << 0, 1 >>, dtype |-> "float64"],
          [type |-> "list", depth |-> 2, items |-> << << 0, 1 >>, << 1 >> >>, dtype |-> "float64"],
          [type |-> "list", depth |-> 2, items |-> << << 1, 0 >> >>, dtype |-> "int64"]}
    \cup {[type |-> "ndarray", shape |-> << 2 >>, flat |-> << 1, 0 >>, dtype |-> "float64"],
          [type |-> "ndarray", shape |-> << 1, 1, 2 >>, flat |-> << 1, 0 >>, dtype |-> "float64"],
          [type |-> "ndarray", shape |-> << 1, 2 >>, flat |-> << 1, 0 >>, dtype |-> "float32"],
          [type |-> "ndarray", shape |-> << 1, 2 >>, flat |-> << 1, 0 >>, dtype |-> "bool"],
          [type |-> "ndarray", shape |-> << 1, 2 >>, chars |-> << "1", "0" >>, dtype |-> "str"],
          [type |-> "ndarray", shape |-> << 1, 2 >>, chars |-> << "a", "b" >>, dtype |-> "str"]}
    \cup {[type |-> "ndarray", shape |-> << Len(b), 2 >>, flat |-> Flatten(b), dtype |-> "float64"] :
            b \in Batches}
    \cup {[type |-> "ndarray", shape |-> << r, c >>, flat |-> ZeroFlat(r * c), dtype |-> "float64"] :
            r \in 0 .. MaxRows, c \in 1 .. 3}

----------------------------------------------------------------------------
(* State machine: one action per public or cached operation of an instance *)

\* The local variables of a thread that is not inside compile()
NoLocals == [exec_engine |-> None, module |-> None, addr |-> 0, exc |-> "ok"]

NoCall == [op |-> "init", m |-> "m1", arg |-> None, exc |-> "ok", ret |-> None,
           trace |-> << >>, native |-> << >>]

\* Model.__init__ for every instance, on a file system holding any initial file
Init ==
    /\ model_file \in { f \in [Models -> ModelFiles] : f["m2"] = "fA" }
    /\ general_info = [m \in Models |-> parse_model_file(model_file[m])]
    /\ IR_module_frontend = [m \in Models |-> None]
    /\ IR_module = [m \in Models |-> None]
    /\ execution_engine = [m \in Models |-> None]
    /\ c_entry_func = [m \in Models |-> None]
    /\ engines = [m \in Models |-> << >>]
    /\ nmod = [m \in Models |-> 0]
    /\ files \in { f \in [Paths -> UNION { InitialFiles(p) : p \in Paths }] :
                      \A p \in Paths : f[p] \in InitialFiles(p) }
    /\ invoked = [m \in Models |-> [frontend |-> 0, optimizer |-> 0, add_module |-> 0]]
    /\ predicted = [m \in Models |-> FALSE]
    /\ last = NoCall
    /\ pc = [t \in Threads |-> "idle"]
    /\ loc = [t \in Threads |-> NoLocals]

\* The process is running: no native fault has ended it
Alive == last.exc # "Segfault"
Quiet == \A t \in Threads : pc[t] = "idle"

Ran(trace, stage) == \E i \in DOMAIN trace : trace[i] = stage
Count(n, trace, stage) == IF Ran(trace, stage) THEN Sat(n) ELSE n

\* Store that assigns _IR_module on the class, so that every instance sees it
Store_class_level(m, s) ==
    /\ IR_module_frontend' = [IR_module_frontend EXCEPT ![m] = s.IR_module_frontend]
    /\ IR_module' = [x \in Models |-> s.IR_module]
    /\ execution_engine' = [execution_engine EXCEPT ![m] = s.execution_engine]
    /\ c_entry_func' = [c_entry_func EXCEPT ![m] = s.c_entry_func]
    /\ engines' = [engines EXCEPT ![m] = s.engines]
    /\ nmod' = [nmod EXCEPT ![m] = s.nmod]
    /\ invoked' = [invoked EXCEPT ![m] =
                     [frontend |-> Count(@.frontend, s.trace, "frontend"),
                      optimizer |-> Count(@.optimizer, s.trace, "optimizer"),
                      add_module |-> Count(@.add_module, s.trace, "add_module")]]

\* Write the fields of a self record back to instance m and record the call
Store(m, s) ==
    /\ IR_module_frontend' = [IR_module_frontend EXCEPT ![m] = s.IR_module_frontend]
    /\ IR_module' = [IR_module EXCEPT ![m] = s.IR_module]
    /\ execution_engine' = [execution_engine EXCEPT ![m] = s.execution_engine]
    /\ c_entry_func' = [c_entry_func EXCEPT ![m] = s.c_entry_func]
    /\ engines' = [engines EXCEPT ![m] = s.engines]
    /\ nmod' = [nmod EXCEPT ![m] = s.nmod]
    /\ invoked' = [invoked EXCEPT ![m] =
                     [frontend |-> Count(@.frontend, s.trace, "frontend"),
                      optimizer |-> Count(@.optimizer, s.trace, "optimizer"),
                      add_module |-> Count(@.add_module, s.trace, "add_module")]]

Called(op, m, arg, r, native) ==
    last' = [op |-> op, m |-> m, arg |-> arg, exc |-> r.exc, ret |-> r.ret,
             trace |-> r.self.trace, native |-> native]

GetIrFromFrontend(m) ==
    /\ Alive /\ Quiet
    /\ LET r == get_ir_from_frontend(Self(m))
       IN  Store(m, r.self) /\ Called("get_ir_from_frontend", m, None, r, << >>)
    /\ UNCHANGED << model_file, general_info, files, predicted, pc, loc >>

GetOptimizedModule(m) ==
    /\ Alive /\ Quiet
    /\ LET r == get_optimized_module(Self(m))
       IN  Store(m, r.self) /\ Called("get_optimized_module", m, None, r, << >>)
    /\ UNCHANGED << model_file, general_info, files, predicted, pc, loc >>

Compile(m) ==
    /\ Alive /\ Quiet
    /\ LET r == compile(Self(m))
       IN  Store(m, r.self) /\ Called("compile", m, None, r, << >>)
    /\ UNCHANGED << model_file, general_info, files, predicted, pc, loc >>

SaveModelIr(m, p) ==
    /\ Alive /\ Quiet
    /\ LET r == save_model_ir(Self(m))
       IN  /\ Store(m, r.self)
           /\ Called("save_model_ir", m, p, [r EXCEPT !.ret = None], << >>)
           /\ files' = IF r.exc = "ok" THEN [files EXCEPT ![p] = File(r.ret)] ELSE files
    /\ UNCHANGED << model_file, general_info, predicted, pc, loc >>

LoadModelIr(m, p) ==
    /\ Alive /\ Quiet
    /\ nmod[m] < MaxModules
    /\ LET r == load_model_ir(Self(m), files[p])
       IN  Store(m, r.self) /\ Called("load_model_ir", m, p, r, << >>)
    /\ UNCHANGED << model_file, general_info, files, predicted, pc, loc >>

Predict(m, data) ==
    /\ Alive /\ Quiet
    /\ \E r \in predict(Self(m), general_info[m], data) :
          /\ Store(m, r.self)
          /\ Called("predict", m, data, r, r.native)
          /\ predicted' = [predicted EXCEPT ![m] = @ \/ r.exc = "ok"]
    /\ UNCHANGED << model_file, general_info, files, pc, loc >>

\* The operations of one instance
Ops(m) ==
    \/ GetIrFromFrontend(m)
    \/ GetOptimizedModule(m)
    \/ Compile(m)
    \/ \E p \in Paths : SaveModelIr(m, p)
    \/ \E p \in Paths : LoadModelIr(m, p)
    \/ \E data \in DataInputs : Predict(m, data)

\* One instance used from one thread
Next == Ops("m1")

Spec == Init /\ [][Next]_vars

\* The batches of num_feature() columns among the inputs
ValidInputs == { d \in DataInputs : d.type = "ndarray" /\ d.dtype = "float64"
                                    /\ Len(d.shape) = 2 /\ d.shape[2] = 2 /\ d.shape[1] >= 1 }

\* Two instances used in turn from one thread, sharing the file system; each
\* restores at most MaxPairLoads times, saves to "model.ll" and predicts on
\* batches of one row
PairInputs == { d \in ValidInputs : d.shape[1] = 1 }

\* the ModuleRef objects of m that load_model_ir created
Loads(m) == nmod[m] - invoked[m].optimizer

PairOps(m) ==
    \/ Compile(m)
    \/ SaveModelIr(m, "model.ll")
    \/ \E p \in Paths : Loads(m) < MaxPairLoads /\ LoadModelIr(m, p)
    \/ \E data \in PairInputs : Predict(m, data)

NextPair == \E m \in Models : PairOps(m)

SpecPair == Init /\ [][NextPair]_vars

----------------------------------------------------------------------------
(* compile() run by several threads on instance "m1": one step per         *)
(* attribute read or write of self and per call into llvmlite, which is    *)
(* where the interpreter can switch threads.  No lock is taken anywhere in *)
(* the class.                                                              *)

Shared == "m1"

Goto(t, label) == pc' = [pc EXCEPT ![t] = label]
Keep(t) == loc' = loc
Fixed == << model_file, general_info, files, predicted, last >>

\* line 110-111: if self._c_entry_func: return
T_CheckEntry(t) ==
    /\ Alive /\ pc[t] = "idle"
    /\ Goto(t, IF Truthy(c_entry_func[Shared]) THEN "done" ELSE "get_engine")
    /\ Keep(t)
    /\ UNCHANGED << Fixed, cache, engines, nmod, invoked >>

\* line 46-47: if self._execution_engine: return self._execution_engine
T_CheckEngine(t) ==
    /\ pc[t] = "get_engine"
    /\ IF Truthy(execution_engine[Shared])
       THEN /\ loc' = [loc EXCEPT ![t].exec_engine = execution_engine[Shared]]
            /\ Goto(t, "get_module")
       ELSE Keep(t) /\ Goto(t, "create_engine")
    /\ UNCHANGED << Fixed, cache, engines, nmod, invoked >>

\* lines 49-58: build the target machine and the engine, assign self._execution_engine
T_CreateEngine(t) ==
    /\ pc[t] = "create_engine"
    /\ engines' = [engines EXCEPT ![Shared] = Append(@, {})]
    /\ execution_engine' = [execution_engine EXCEPT
                              ![Shared] = [eid |-> Len(engines[Shared]) + 1]]
    /\ Keep(t) /\ Goto(t, "return_engine")
    /\ UNCHANGED << Fixed, IR_module_frontend, IR_module, c_entry_func, nmod, invoked >>

\* line 59: return self._execution_engine
T_ReturnEngine(t) ==
    /\ pc[t] = "return_engine"
    /\ loc' = [loc EXCEPT ![t].exec_engine = execution_engine[Shared]]
    /\ Goto(t, "get_module")
    /\ UNCHANGED << Fixed, cache, engines, nmod, invoked >>

\* line 62-63: if self._IR_module: return self._IR_module
T_CheckModule(t) ==
    /\ pc[t] = "get_module"
    /\ IF Truthy(IR_module[Shared])
       THEN /\ loc' = [loc EXCEPT ![t].module = IR_module[Shared]]
            /\ Goto(t, "add_module")
       ELSE Keep(t) /\ Goto(t, "get_frontend")
    /\ UNCHANGED << Fixed, cache, engines, nmod, invoked >>

\* line 36: if not self._IR_module_frontend
T_CheckFrontend(t) ==
    /\ pc[t] = "get_frontend"
    /\ Goto(t, IF ~Truthy(IR_module_frontend[Shared]) THEN "call_frontend" ELSE "parse")
    /\ Keep(t)
    /\ UNCHANGED << Fixed, cache, engines, nmod, invoked >>

\* line 37: self._IR_module_frontend = ir_from_model_file(self.model_file)
T_CallFrontend(t) ==
    /\ pc[t] = "call_frontend"
    /\ IR_module_frontend' = [IR_module_frontend EXCEPT
                                ![Shared] = ir_from_model_file(model_file[Shared])]
    /\ invoked' = [invoked EXCEPT ![Shared].frontend = Sat(@)]
    /\ Keep(t) /\ Goto(t, "parse")
    /\ UNCHANGED << Fixed, IR_module, execution_engine, c_entry_func, engines, nmod >>

\* lines 38, 66-67: parse str(self._IR_module_frontend) and verify the module
T_ParseVerify(t) ==
    /\ pc[t] = "parse"
    /\ LET module == parse_assembly(ir_str(IR_module_frontend[Shared]), nmod[Shared] + 1)
       IN  IF module = ParseFail
           THEN /\ loc' = [loc EXCEPT ![t].exc = "ParseError"]
                /\ Goto(t, "done") /\ nmod' = nmod
           ELSE IF ~verify_ok(module)
           THEN /\ loc' = [loc EXCEPT ![t].exc = "VerifyError"]
                /\ Goto(t, "done") /\ nmod' = nmod
           ELSE /\ loc' = [loc EXCEPT ![t].module = module]
                /\ Goto(t, "optimize")
                /\ nmod' = [nmod EXCEPT ![Shared] = @ + 1]
    /\ UNCHANGED << Fixed, cache, engines, invoked >>

\* lines 70-78: run the pass manager on the module, assign self._IR_module
T_Optimize(t) ==
    /\ pc[t] = "optimize"
    /\ IR_module' = [IR_module EXCEPT ![Shared] = pm_run(loc[t].module)]
    /\ invoked' = [invoked EXCEPT ![Shared].optimizer = Sat(@)]
    /\ Keep(t) /\ Goto(t, "return_module")
    /\ UNCHANGED << Fixed, IR_module_frontend, execution_engine, c_entry_func, engines, nmod >>

\* line 79: return self._IR_module
T_ReturnModule(t) ==
    /\ pc[t] = "return_module"
    /\ loc' = [loc EXCEPT ![t].module = IR_module[Shared]]
    /\ Goto(t, "add_module")
    /\ UNCHANGED << Fixed, cache, engines, nmod, invoked >>

\* line 115: exec_engine.add_module(module), KeyError when this engine holds it
T_AddModule(t) ==
    /\ pc[t] = "add_module"
    /\ IF loc[t].module \in engines[Shared][loc[t].exec_engine.eid]
       THEN /\ loc' = [loc EXCEPT ![t].exc = "KeyError"]
            /\ Goto(t, "done")
            /\ UNCHANGED << engines, invoked >>
       ELSE /\ engines' = [engines EXCEPT
                             ![Shared][loc[t].exec_engine.eid] = @ \cup {loc[t].module}]
            /\ invoked' = [invoked EXCEPT ![Shared].add_module = Sat(@)]
            /\ Keep(t) /\ Goto(t, "finalize")
    /\ UNCHANGED << Fixed, cache, nmod >>

\* lines 117-118: finalize_object and run_static_constructors
T_Finalize(t) ==
    /\ pc[t] = "finalize"
    /\ Keep(t) /\ Goto(t, "resolve")
    /\ UNCHANGED << Fixed, cache, engines, nmod, invoked >>

\* line 121: addr = exec_engine.get_function_address("forest_root")
T_Resolve(t) ==
    /\ pc[t] = "resolve"
    /\ LET found == FunctionAddresses(engines[Shared][loc[t].exec_engine.eid], "forest_root")
       IN  \E a \in (IF found = {} THEN {0} ELSE found) :
              loc' = [loc EXCEPT ![t].addr = a]
    /\ Goto(t, "bind")
    /\ UNCHANGED << Fixed, cache, engines, nmod, invoked >>

\* lines 123-125: self._c_entry_func = CFUNCTYPE(...)(addr)
T_Bind(t) ==
    /\ pc[t] = "bind"
    /\ c_entry_func' = [c_entry_func EXCEPT ![Shared] = CFUNCTYPE(loc[t].addr)]
    /\ Keep(t) /\ Goto(t, "done")
    /\ UNCHANGED << Fixed, IR_module_frontend, IR_module, execution_engine,
                    engines, nmod, invoked >>

ThreadStep(t) ==
    \/ T_CheckEntry(t) \/ T_CheckEngine(t) \/ T_CreateEngine(t) \/ T_ReturnEngine(t)
    \/ T_CheckModule(t) \/ T_CheckFrontend(t) \/ T_CallFrontend(t) \/ T_ParseVerify(t)
    \/ T_Optimize(t) \/ T_ReturnModule(t) \/ T_AddModule(t) \/ T_Finalize(t)
    \/ T_Resolve(t) \/ T_Bind(t)

NextThreads == \E t \in Threads : ThreadStep(t)

\* Threads calling compile() once each on one Fresh instance
SpecThreads == Init /\ [][NextThreads]_vars

----------------------------------------------------------------------------
(* Vocabulary of the properties *)

\* The spec's names for the cached fields of instance m
FrontendPresent(m) == IR_module_frontend[m] # None
OptimizedPresent(m) == IR_module[m] # None
EnginePresent(m) == execution_engine[m] # None
EntryPresent(m) == Truthy(c_entry_func[m])
Fresh(m) == /\ IR_module_frontend[m] = None /\ IR_module[m] = None
            /\ execution_engine[m] = None /\ c_entry_func[m] = None

\* The modules registered with the engine instance m holds
Linked(m) == IF execution_engine[m] = None THEN {}
             ELSE engines[m][execution_engine[m].eid]

\* The array a prediction input converts to, and its shape
AsArray(data) == IF data.type = "list" THEN np_array(data) ELSE data
IsArray(data) == AsArray(data) # ConvertFail /\ AsArray(data).type = "ndarray"
NDim(data) == Len(AsArray(data).shape)
IsNumeric(data) == AsArray(data).dtype = "float64" \/ astype_float64(AsArray(data)).ok
\* the float64 array _to_1d_ndarray makes of an accepted input, in its 2-dimensional shape
AsFloat64(data) ==
    [type |-> "ndarray", shape |-> AsArray(data).shape,
     flat |-> to_1d_ndarray(data).data, dtype |-> "float64"]
Unparseable(file) == file.exists /\ \E i \in DOMAIN file.text : ~IsLine(file.text[i])

----------------------------------------------------------------------------
(* C1: compile() called again right after compile() changes no cached      *)
(* field (so entry_point is the one the first call left); once a compile   *)
(* has bound the entry function, a further compile() returns at once       *)
(* without entering any stage; and over every sequence of operations the   *)
(* frontend (ir_from_model_file) and the optimizer (pass-manager run) are  *)
(* each invoked at most once per instance.                                 *)
C1_CompileIdempotent ==
    [][ /\ \A m \in Models : invoked'[m].frontend <= 1 /\ invoked'[m].optimizer <= 1
        /\ (last.op = "compile" /\ last'.op = "compile" /\ last'.m = last.m)
              => /\ cache' = cache
                 /\ c_entry_func'[last.m] = c_entry_func[last.m]
        /\ (last'.op = "compile" /\ EntryPresent(last'.m))
              => /\ last'.exc = "ok" /\ last'.trace = << >>
                 /\ cache' = cache ]_vars

\* A compile() that found the entry function bound and returned at once
C1_Witness ==
    /\ last.op = "compile" /\ last.exc = "ok" /\ last.trace = << >>
    /\ EntryPresent(last.m)
    /\ invoked[last.m].frontend = 1 /\ invoked[last.m].optimizer = 1

----------------------------------------------------------------------------
(* C2: a predict call whose input is a 2-dimensional array, of at least    *)
(* one row, with a number of columns other than num_feature() does not     *)
(* invoke the native entry                                                 *)
(* function and ends in the shape error (ValueError), unless the compile() *)
(* it runs first has already raised.                                       *)
C2_ColumnMismatchRejected ==
    (/\ last.op = "predict"
     /\ IsArray(last.arg) /\ NDim(last.arg) = 2
     /\ AsArray(last.arg).shape[1] >= 1
     /\ AsArray(last.arg).shape[2] # num_feature(general_info[last.m]))
       => /\ last.native = << >>
          /\ last.exc \in {"ValueError", "VerifyError", "KeyError"}

----------------------------------------------------------------------------
(* C3 as stated: when predict on a Fresh instance ends in the shape error  *)
(* for a 1-dimensional array, the engine is still absent and the call has  *)
(* entered no stage.                                                       *)
C3_ShapeErrorBeforeEngine ==
    [][ (/\ Fresh(last'.m) /\ last'.op = "predict"
         /\ IsArray(last'.arg) /\ NDim(last'.arg) = 1
         /\ last'.exc = "ValueError")
           => /\ execution_engine'[last'.m] = None
              /\ last'.trace = << >> ]_vars

(* C3 amended: predict with a 1-dimensional array never invokes the native *)
(* entry function and never returns normally, but the shape check comes    *)
(* after compile(): the call ends in the shape error only when compile()   *)
(* has returned, so the engine, the optimized module and the entry         *)
(* function are then set; on a Fresh instance the engine is constructed in *)
(* that very call, before the error.                                       *)
C3_ShapeErrorAfterCompile ==
    [][ (/\ last'.op = "predict"
         /\ IsArray(last'.arg) /\ NDim(last'.arg) = 1)
           => /\ last'.native = << >>
              /\ last'.exc \in {"ValueError", "VerifyError", "KeyError"}
              /\ last'.exc = "ValueError"
                   => /\ execution_engine'[last'.m] # None
                      /\ IR_module'[last'.m] # None
                      /\ c_entry_func'[last'.m] # None
              /\ Fresh(last'.m)
                   => /\ Ran(last'.trace, "engine")
                      /\ execution_engine'[last'.m] # None ]_vars

\* A predict on a 1-dimensional array that built the engine and linked the
\* module before it raised the shape error
C3_Witness ==
    /\ last.op = "predict" /\ last.exc = "ValueError"
    /\ IsArray(last.arg) /\ NDim(last.arg) = 1
    /\ Ran(last.trace, "engine") /\ Ran(last.trace, "add_module")
    /\ last.native = << >>

----------------------------------------------------------------------------
(* C5: when compile() reaches symbol resolution and no linked module       *)
(* defines forest_root, the call fails with the symbol resolution error    *)
(* and no entry function is cached.                                        *)
C5_MissingSymbolFails ==
    (/\ last.op = "compile"
     /\ Ran(last.trace, "resolve")
     /\ FunctionAddresses(Linked(last.m), "forest_root") = {})
       => /\ last.exc = "SymbolResolutionError"
          /\ c_entry_func[last.m] = None

----------------------------------------------------------------------------
(* C6 as stated: save_model_ir leaves the four cached fields as they were, *)
(* in every state it is called from.                                       *)
C6_SaveChangesNothing ==
    [][ last'.op = "save_model_ir" => cache' = cache ]_vars

(* C6 amended: save_model_ir never changes the engine or the entry         *)
(* function; it changes nothing when the optimized module is cached; when  *)
(* it is not, the call fills the frontend IR and, unless verification      *)
(* fails, the optimized module.                                            *)
C6_SaveFillsOptimized ==
    [][ last'.op = "save_model_ir"
          => /\ execution_engine' = execution_engine
             /\ c_entry_func' = c_entry_func
             /\ engines' = engines
             /\ OptimizedPresent(last'.m) => cache' = cache /\ last'.exc = "ok"
             /\ ~OptimizedPresent(last'.m)
                  => /\ IR_module_frontend'[last'.m] # None
                     /\ (last'.exc = "ok") = (IR_module'[last'.m] # None)
                     /\ (last'.exc # "ok") = (last'.exc = "VerifyError") ]_vars

\* A save_model_ir on an instance without optimized module, which it filled
C6_Witness ==
    /\ last.op = "save_model_ir" /\ last.exc = "ok"
    /\ Ran(last.trace, "frontend") /\ Ran(last.trace, "optimizer")
    /\ OptimizedPresent(last.m) /\ ~EnginePresent(last.m)
    /\ files[last.arg] = File(ir_str(IR_module[last.m]))

----------------------------------------------------------------------------
(* C7: load_model_ir on a file whose text cannot be parsed raises the      *)
(* parse error and leaves the optimized module, and every other cached     *)
(* field, exactly as before the call.                                      *)
C7_BadBlobKeepsState ==
    [][ (last'.op = "load_model_ir" /\ Unparseable(files[last'.arg]))
          => /\ last'.exc = "ParseError"
             /\ IR_module' = IR_module
             /\ cache' = cache /\ engines' = engines ]_vars

\* A failed load on an instance that holds an optimized module
C7_Witness ==
    /\ last.op = "load_model_ir" /\ last.exc = "ParseError"
    /\ Unparseable(files[last.arg])
    /\ OptimizedPresent(last.m)

----------------------------------------------------------------------------
(* C8: the entry function is present exactly when a module defining        *)
(* forest_root has been linked into the instance's engine and the address  *)
(* resolved is that module's; then engine and optimized module are present.*)
C8_EntryIffLinkedAndResolved ==
    \A m \in Models :
       /\ EntryPresent(m) <=> FunctionAddresses(Linked(m), "forest_root") # {}
       /\ EntryPresent(m)
            => /\ EnginePresent(m) /\ OptimizedPresent(m)
               /\ c_entry_func[m].addr \in FunctionAddresses(Linked(m), "forest_root")
       /\ (c_entry_func[m] # None /\ ~EntryPresent(m)) => Linked(m) # {}

\* A compile that linked a second module after a first one without forest_root
C8_Witness ==
    /\ last.op = "compile" /\ Ran(last.trace, "bind")
    /\ EntryPresent(last.m)
    /\ Cardinality(Linked(last.m)) = 2

----------------------------------------------------------------------------
(* C9: no step of any operation, failing ones included, takes a cached     *)
(* field from present back to absent.                                      *)
C9_CachesMonotonic ==
    [][ \A m \in Models :
          /\ FrontendPresent(m) => IR_module_frontend'[m] = IR_module_frontend[m]
          /\ OptimizedPresent(m) => IR_module'[m] # None
          /\ EnginePresent(m) => execution_engine'[m] = execution_engine[m]
          /\ c_entry_func[m] # None => c_entry_func'[m] # None
          /\ EntryPresent(m) => c_entry_func'[m] = c_entry_func[m] ]_vars

\* All four fields present and the latest operation failed
C9_Witness ==
    /\ FrontendPresent("m1") /\ OptimizedPresent("m1")
    /\ EnginePresent("m1") /\ EntryPresent("m1")
    /\ last.exc \in {"ParseError", "ValueError"}

----------------------------------------------------------------------------
(* C10: once a predict has returned normally, every later predict with a   *)
(* 2-dimensional numeric array of num_feature() columns calls the native   *)
(* entry function exactly once, with count equal to the number of rows,    *)
(* returns an array of that length and enters no compile stage.            *)
C10_LaterPredictsOnlyInvoke ==
    [][ (/\ last'.op = "predict" /\ predicted[last'.m]
         /\ IsArray(last'.arg) /\ NDim(last'.arg) = 2 /\ IsNumeric(last'.arg)
         /\ AsArray(last'.arg).shape[2] = num_feature(general_info[last'.m]))
           => /\ last'.native = << AsArray(last'.arg).shape[1] >>
              /\ last'.exc = "ok"
              /\ Len(last'.ret.array) = AsArray(last'.arg).shape[1]
              /\ last'.trace = << "native" >>
              /\ cache' = cache /\ engines' = engines ]_vars

\* A predict of two rows served by the entry function bound earlier
C10_Witness ==
    /\ last.op = "predict" /\ last.exc = "ok" /\ predicted[last.m]
    /\ last.trace = << "native" >>
    /\ last.native = << 2 >> /\ Len(last.ret.array) = 2
    /\ AsArray(last.arg).shape = << 2, 2 >>

----------------------------------------------------------------------------
(* C4: when threads call compile() on one Fresh instance, no two threads   *)
(* are at once inside engine construction or inside linking, the engine is *)
(* constructed once and a module is registered with an engine once.        *)
InEngineConstruction(t) == pc[t] = "create_engine"
InLinking(t) == pc[t] \in {"add_module", "finalize"}

C4_CompileSerialized ==
    /\ \A t, u \in Threads :
          t # u => /\ ~(InEngineConstruction(t) /\ InEngineConstruction(u))
                   /\ ~(InLinking(t) /\ InLinking(u))
    /\ Len(engines[Shared]) <= 1
    /\ invoked[Shared].add_module <= 1

----------------------------------------------------------------------------
(* C11 (round trip).  Instance b, Fresh until then, has just restored from *)
(* "model.ll" the text that is the saved form of the optimized module of   *)
(* instance a, and both instances have the same descriptor.                *)
RoundTrip(a, b) ==
    /\ a # b /\ general_info[a] = general_info[b]
    /\ last.op = "load_model_ir" /\ last.m = b /\ last.exc = "ok"
    /\ last.arg = "model.ll"
    /\ IR_module[a] # None /\ files[last.arg] = File(ir_str(IR_module[a]))
    /\ IR_module_frontend[b] = None /\ execution_engine[b] = None
    /\ c_entry_func[b] = None /\ nmod[b] = 1

\* what predict(data) on instance m can end in, and what it can return
Outcomes(m, data) ==
    { [exc |-> r.exc, ret |-> r.ret] : r \in predict(Self(m), general_info[m], data) }
NormalResults(m, data) ==
    { o.ret : o \in { x \in Outcomes(m, data) : x.exc = "ok" } }

\* the entry function of m, when bound, was compiled from the module m holds
EntryFromCachedModule(m) ==
    EntryPresent(m) => c_entry_func[m].addr = IR_module[m].id

(* C11 as stated: after the round trip the optimized module of b has the   *)
(* functions of the optimized module of a, and predict on b ends as        *)
(* predict on a does, for every batch.                                     *)
C11_RoundTripSamePredictions ==
    \A a, b \in Models :
       RoundTrip(a, b)
         => /\ IR_module[b].funcs = IR_module[a].funcs
            /\ \A d \in ValidInputs : Outcomes(b, d) = Outcomes(a, d)

(* C11 amended: provided the entry function of a, when bound, was compiled *)
(* from the module a persisted, the optimized module of b has the same     *)
(* functions and, for every batch, predict on b returns normally exactly   *)
(* when predict on a does, with the same array.                            *)
C11_RoundTripWhenEntryCurrent ==
    \A a, b \in Models :
       (RoundTrip(a, b) /\ EntryFromCachedModule(a))
         => /\ IR_module[b].funcs = IR_module[a].funcs
            /\ \A d \in ValidInputs : NormalResults(b, d) = NormalResults(a, d)

\* a compiled instance saved its module and the other instance restored it
C11_Witness ==
    /\ RoundTrip("m1", "m2") /\ EntryFromCachedModule("m1") /\ EntryPresent("m1")
    /\ invoked["m1"].optimizer = 1
    /\ \A d \in ValidInputs : NormalResults("m2", d) # {}

----------------------------------------------------------------------------
(* C12 (batch linearity).  After predict has returned the array for a      *)
(* batch A of num_feature() columns, for every such batch B predict on A   *)
(* followed by B returns the array for A followed by the array for B, and  *)
(* predict on B followed by A the array for B followed by the array for A. *)
FeatureBatches(m) ==
    { AsFloat64(d) : d \in { x \in DataInputs :
          /\ IsArray(x) /\ NDim(x) = 2 /\ IsNumeric(x)
          /\ AsArray(x).shape[2] = num_feature(general_info[m]) } }

\* np.concatenate((A, B)) of two float64 batches of the same number of columns
Concat(A, B) ==
    [type |-> "ndarray", shape |-> << A.shape[1] + B.shape[1], A.shape[2] >>,
     flat |-> A.flat \o B.flat, dtype |-> "float64"]

C12_BatchLinearity ==
    (/\ last.op = "predict" /\ last.exc = "ok"
     /\ AsFloat64(last.arg) \in FeatureBatches(last.m))
       => \A B \in FeatureBatches(last.m) :
             /\ NormalResults(last.m, B) # {}
             /\ Outcomes(last.m, Concat(AsFloat64(last.arg), B)) =
                  { [exc |-> "ok", ret |-> [array |-> last.ret.array \o r.array]] :
                       r \in NormalResults(last.m, B) }
             /\ Outcomes(last.m, Concat(B, AsFloat64(last.arg))) =
                  { [exc |-> "ok", ret |-> [array |-> r.array \o last.ret.array]] :
                       r \in NormalResults(last.m, B) }

\* predict returned different values for the two rows of a batch
C12_Witness ==
    /\ last.op = "predict" /\ last.exc = "ok"
    /\ AsFloat64(last.arg) \in FeatureBatches(last.m)
    /\ AsArray(last.arg).shape[1] = 2
    /\ last.ret.array[1] # last.ret.array[2]
    /\ \E B \in FeatureBatches(last.m) : B.shape[1] = 0

----------------------------------------------------------------------------
(* C13 (independence of instances).  A call on one Model instance leaves   *)
(* IR_module_frontend, IR_module, execution_engine and c_entry_func of     *)
(* every other instance as they were; in particular an instance that is    *)
(* Fresh stays Fresh while the other instance compiles or restores.        *)
CacheOf(m) == << IR_module_frontend[m], IR_module[m], execution_engine[m], c_entry_func[m] >>

OthersKeepCaches ==
    \A b \in Models : b # last'.m =>
        /\ IR_module_frontend'[b] = IR_module_frontend[b]
        /\ IR_module'[b] = IR_module[b]
        /\ execution_engine'[b] = execution_engine[b]
        /\ c_entry_func'[b] = c_entry_func[b]
        /\ (Fresh(b) => Fresh(b)')

C13_InstancesIndependent == [][OthersKeepCaches]_vars

\* one instance has compiled and then restored a module, the other is still Fresh
C13_Witness ==
    /\ last.op = "load_model_ir" /\ last.exc = "ok" /\ last.m = "m1"
    /\ EntryPresent("m1") /\ EnginePresent("m1") /\ FrontendPresent("m1")
    /\ OptimizedPresent("m1")
    /\ Fresh("m2")

----------------------------------------------------------------------------
(* C14 (lazy, ordered pipeline).  Construction runs no stage and leaves    *)
(* the four caches absent; within every call the frontend runs before the  *)
(* optimizer, the optimizer before add_module and finalize, and those      *)
(* before symbol resolution and binding; the optimizer runs only on a      *)
(* present frontend module and linking only on a present optimized module; *)
(* the entry function is never called while the entry point is absent.     *)
StageRank(stage) ==
    CASE stage = "frontend" -> 1
      [] stage = "verify" -> 2
      [] stage = "optimizer" -> 3
      [] stage = "add_module" -> 4
      [] stage = "finalize" -> 5
      [] stage = "resolve" -> 6
      [] stage = "bind" -> 7
      [] stage = "native" -> 8
      [] OTHER -> 0

ConstructionRunsNothing ==
    last.op = "init" =>
        \A m \in Models : /\ Fresh(m)
                          /\ engines[m] = << >> /\ nmod[m] = 0
                          /\ invoked[m] = [frontend |-> 0, optimizer |-> 0, add_module |-> 0]

StagesOrdered ==
    /\ \A i, j \in DOMAIN last.trace :
          (i < j /\ StageRank(last.trace[i]) > 0 /\ StageRank(last.trace[j]) > 0)
             => StageRank(last.trace[i]) < StageRank(last.trace[j])
    /\ Ran(last.trace, "optimizer") => FrontendPresent(last.m)
    /\ Ran(last.trace, "add_module") => OptimizedPresent(last.m)
    /\ Ran(last.trace, "resolve") => Ran(last.trace, "finalize")
    /\ Ran(last.trace, "finalize") => Ran(last.trace, "add_module")
    /\ Ran(last.trace, "bind") => Ran(last.trace, "resolve")

NativeOnlyWhenBound == Ran(last.trace, "native") => EntryPresent(last.m)

C14_LazyOrderedPipeline ==
    ConstructionRunsNothing /\ StagesOrdered /\ NativeOnlyWhenBound

----------------------------------------------------------------------------
(* C15 (restore skips the frontend and the optimizer).  On an instance     *)
(* whose optimized module came from load_model_ir and whose frontend and   *)
(* optimizer have never run, a call of compile, predict or save_model_ir   *)
(* runs neither of them and leaves the frontend module absent; the         *)
(* instance is then again in such a state, so this holds along every       *)
(* sequence of those calls.                                                *)
RestoredOnly(m) ==
    /\ OptimizedPresent(m) /\ ~FrontendPresent(m)
    /\ invoked[m].frontend = 0 /\ invoked[m].optimizer = 0

C15_RestoreSkipsFrontend ==
    [][ \A m \in Models :
          (/\ RestoredOnly(m)
           /\ last'.m = m
           /\ last'.op \in {"compile", "predict", "save_model_ir"})
             => /\ ~Ran(last'.trace, "frontend")
                /\ ~Ran(last'.trace, "verify")
                /\ ~Ran(last'.trace, "optimizer")
                /\ RestoredOnly(m)' ]_vars

\* load on a Fresh instance, then compile, predict and save have all run
C15_Witness ==
    /\ RestoredOnly("m1") /\ nmod["m1"] = 1
    /\ last.m = "m1" /\ last.op = "save_model_ir" /\ last.exc = "ok"
    /\ EntryPresent("m1") /\ predicted["m1"]
    /\ invoked["m1"].add_module = 1

----------------------------------------------------------------------------
(* C16 (verification failure).  A call that fails in the verification of   *)
(* the frontend module raises the verification error itself, leaves the    *)
(* optimized module and the entry point absent and the frontend module     *)
(* cached; when the frontend module was already cached the call reuses it  *)
(* and does not run the frontend again.                                    *)
C16_VerifyFailureKeepsFrontend ==
    [][ \A m \in Models :
          (last'.m = m /\ last'.exc = "VerifyError")
             => /\ last'.op \in {"compile", "get_optimized_module", "predict", "save_model_ir"}
                /\ Ran(last'.trace, "verify") /\ ~Ran(last'.trace, "optimizer")
                /\ ~OptimizedPresent(m)' /\ ~EntryPresent(m)'
                /\ IR_module'[m] = None /\ c_entry_func'[m] = None
                /\ FrontendPresent(m)'
                /\ FrontendPresent(m)
                     => /\ ~Ran(last'.trace, "frontend")
                        /\ IR_module_frontend' = IR_module_frontend
                        /\ invoked'[m].frontend = invoked[m].frontend ]_vars

\* a second compile fails in verification on the frontend module the first one cached
C16_Witness ==
    /\ last.op = "compile" /\ last.exc = "VerifyError"
    /\ Ran(last.trace, "verify") /\ ~Ran(last.trace, "frontend")
    /\ invoked[last.m].frontend = 1
    /\ FrontendPresent(last.m) /\ ~OptimizedPresent(last.m) /\ ~EntryPresent(last.m)
    /\ EnginePresent(last.m)

----------------------------------------------------------------------------
(* C17 (one engine per instance).  Over every sequence of calls an         *)
(* instance creates at most one execution engine; once the engine is       *)
(* cached, also by a compile that failed afterwards, no call creates       *)
(* another one or replaces it, and a later compile adds its module to      *)
(* that engine.                                                            *)
C17_EngineBuiltOnce ==
    [][ \A m \in Models :
          /\ Len(engines'[m]) <= 1
          /\ EnginePresent(m)
               => /\ execution_engine'[m] = execution_engine[m]
                  /\ Len(engines'[m]) = Len(engines[m])
                  /\ last'.m = m => ~Ran(last'.trace, "engine")
                  /\ (last'.m = m /\ Ran(last'.trace, "add_module"))
                       => /\ engines[m][execution_engine[m].eid]
                                # engines'[m][execution_engine[m].eid]
                          /\ engines[m][execution_engine[m].eid]
                                \subseteq engines'[m][execution_engine[m].eid] ]_vars

\* a compile failed after it had created the engine; after a restore a later
\* compile links against that engine
C17_Witness ==
    /\ model_file["m1"] = "fBad"
    /\ last.m = "m1" /\ last.op = "compile" /\ last.exc = "ok"
    /\ Ran(last.trace, "add_module") /\ ~Ran(last.trace, "engine")
    /\ Len(engines["m1"]) = 1 /\ execution_engine["m1"] = [eid |-> 1]
    /\ IR_module["m1"] \in engines["m1"][1]

----------------------------------------------------------------------------
(* C18 (restore after compile).  On an instance whose entry point is bound *)
(* load_model_ir replaces the optimized module and leaves the engine, the  *)
(* modules linked into it and the entry function as they were; a following *)
(* compile returns at once; a following predict links nothing and returns  *)
(* what the function the entry point was bound to computes, which is the   *)
(* function of the module compiled before, not of the restored one.        *)
IsFeatureBatch(m, data) ==
    /\ IsArray(data) /\ NDim(data) = 2 /\ IsNumeric(data)
    /\ AsArray(data).shape[2] = num_feature(general_info[m])

\* the function the entry point of m is bound to
BoundFunction(m) == FuncAt(Self(m), c_entry_func[m].addr)

C18_RestoreAfterCompileKeepsEntry ==
    [][ \A m \in Models :
          (EntryPresent(m) /\ last'.m = m)
            => /\ (last'.op = "load_model_ir" /\ last'.exc = "ok")
                    => /\ IR_module'[m] = parse_assembly(files[last'.arg].text, nmod[m] + 1)
                       /\ IR_module'[m] # IR_module[m]
                       /\ execution_engine'[m] = execution_engine[m]
                       /\ engines'[m] = engines[m]
                       /\ c_entry_func'[m] = c_entry_func[m]
               /\ last'.op = "compile"
                    => /\ last'.exc = "ok" /\ last'.trace = << >>
                       /\ cache' = cache /\ engines' = engines
               /\ last'.op = "predict"
                    => /\ cache' = cache /\ engines' = engines
                       /\ ~Ran(last'.trace, "add_module")
                       /\ IsFeatureBatch(m, last'.arg)
                            => /\ last'.exc = "ok"
                               /\ last'.ret.array =
                                    objective_transf(general_info[m].objective,
                                        forest_root(BoundFunction(m).sem,
                                                    to_1d_ndarray(last'.arg).data,
                                                    AsArray(last'.arg).shape[1])) ]_vars

\* after compile and a restore of another program, predict has returned what
\* the program compiled first computes
C18_Witness ==
    /\ last.m = "m1" /\ last.op = "predict" /\ last.exc = "ok"
    /\ EntryPresent("m1") /\ OptimizedPresent("m1")
    /\ c_entry_func["m1"].addr # IR_module["m1"].id
    /\ IR_module["m1"] \notin Linked("m1")
    /\ HasFunc(IR_module["m1"], "forest_root")
    /\ \A i \in DOMAIN IR_module["m1"].funcs :
          IR_module["m1"].funcs[i].sem # BoundFunction("m1").sem
    /\ Len(last.ret.array) >= 1
    /\ last.ret.array # objective_transf(general_info["m1"].objective,
                            forest_root("B", to_1d_ndarray(last.arg).data, AsArray(last.arg).shape[1]))

----------------------------------------------------------------------------
(* C19 (a module is registered once).  Whenever a call registers a module  *)
(* with the engine, it is the cached optimized module and the engine did   *)
(* not hold it before; a compile that finds its optimized module already   *)
(* registered, as after a compile whose symbol resolution found nothing,   *)
(* raises KeyError and registers nothing.                                  *)
C19_ModuleRegisteredOnce ==
    [][ \A m \in Models :
          last'.m = m
            => /\ Ran(last'.trace, "add_module")
                    => /\ \A e \in DOMAIN engines[m] : IR_module'[m] \notin engines[m][e]
                       /\ Linked(m)' = Linked(m) \cup {IR_module'[m]}
                       /\ invoked[m].add_module < MaxCount
                            => invoked'[m].add_module = invoked[m].add_module + 1
               /\ ~Ran(last'.trace, "add_module")
                    => /\ Linked(m)' = Linked(m)
                       /\ invoked'[m].add_module = invoked[m].add_module
               /\ (/\ last'.op = "compile" /\ ~EntryPresent(m)
                   /\ OptimizedPresent(m) /\ IR_module[m] \in Linked(m))
                    => /\ last'.exc = "KeyError"
                       /\ engines'[m] = engines[m] ]_vars

\* compile ran again on the module whose symbol resolution had found nothing
C19_Witness ==
    /\ last.op = "compile" /\ last.exc = "KeyError"
    /\ ~EntryPresent(last.m) /\ c_entry_func[last.m] # None
    /\ IR_module[last.m] \in Linked(last.m)
    /\ Linked(last.m) = {IR_module[last.m]}
    /\ invoked[last.m].add_module = 1

====
